---------------------------- MODULE Spec2Model ----------------------------
(***************************************************************************)
(* A model of the OV7670 camera driver (src/src/camera.rs) and the ST7735  *)
(* display driver (src/src/display.rs).                                    *)
(*                                                                         *)
(* The firmware is one sequential thread.  pc is the position of that      *)
(* thread: "idle" between top-level calls, a label inside a call that      *)
(* polls hardware.  The display operations never wait on anything this     *)
(* model distinguishes, so each of them is one action (fill also in two    *)
(* steps, up to the memory-write command and from there on); the           *)
(* register-bus and bus-recovery operations are stepped from one hardware  *)
(* access to the next, with the hardware as the other party; the capture   *)
(* is stepped from one turn of its row loop to the next, over the levels   *)
(* the simulated sensor puts on its lines.                                 *)
(***************************************************************************)
EXTENDS Integers, Sequences, FiniteSets, TLC

VARIABLES
    pc,         \* position of the firmware thread
    halted,     \* TRUE once a Rust panic has stopped the program (panic_halt)
    \* ---- ST7735 display driver
    width,      \* ST7735.width
    height,     \* ST7735.height
    cs,         \* chip-select line PA0: "Enable" (asserted) or "Disable"
    rs,         \* register-select line PA4: "Command" or "Data"
    rst,        \* reset line PA1: "Enable" (in reset) or "Disable"
    log,        \* what the current / last top-level display call did, in order
    reads,      \* the buffer indices the last draw_row indexed
    last,       \* the last top-level display call and its arguments
    sample,     \* the pixel code fed to the conversion
    \* ---- OV7670 register bus (SCCB over I2C1)
    i2c,        \* the I2C1 bits the driver touches: CR1 start/stop/ack,
                \* SR1 sb/addr/btf/rx_ne, and DR
    bus,        \* the simulated peripheral: bus phase, byte being shifted,
                \* register pointer and register file
    sccb,       \* the current / last sccb call: op, addr, data, ret
    busLog,     \* the register accesses of the current / last sccb call
    shadow,     \* per register, the value of the last completed sccb_write
    \* ---- bus recovery (flush_i2c_bus)
    gpiob,      \* port B as configured for PB8 (SCL) and PB9 (SDA): mode,
                \* alternate function, output type, pull, output latch
    sdaHeld,    \* TRUE while the OV7670 drives SDA low
    fl,         \* the current / last flush_i2c_bus: loop index i, clock
                \* pulses driven, rising edges of SCL, whether it has returned
    \* ---- frame capture (draw_frame)
    sen,        \* the frame the simulated sensor sends: its test pattern,
                \* its lines, the pixels of a line
    cal,        \* OV7670::calibrate: the step it is at (0 outside it), the
                \* register writes and delays it has made, whether it has
                \* returned
    cap         \* draw_frame's locals y, x, buf; its place t in the levels of
                \* the sensor lines vsync (PA6), hsync (PB3), pclk (PA9), data
                \* (PC0..PC7); the draw_row calls it has made; whether it has
                \* returned

dispVars == <<width, height, cs, rs, rst, log, reads, last, sample>>
i2cVars == <<i2c, bus, sccb, busLog, shadow>>
recVars == <<gpiob, sdaHeld, fl>>
capVars == <<sen, cap>>
calVars == <<cal>>
vars == <<pc, halted, dispVars, i2cVars, recVars, capVars, calVars>>

\* What a step of the register bus leaves alone
busFrame == <<halted, dispVars, recVars, capVars, calVars>>
\* What a step of the bus recovery leaves alone
recFrame == <<halted, dispVars, i2cVars, capVars, calVars>>
\* What a display call leaves alone
dispFrame == <<pc, i2cVars, recVars, capVars, calVars>>
\* What a step of the capture or of the sensor leaves alone
capFrame == <<i2cVars, recVars, calVars>>

-----------------------------------------------------------------------------
(* The OV7670 registers and values of OV7670::calibrate *)

COM7_ADDR == 18
COM7_RGB_SELECT == 4
COM7_QVGA_SELECT == 16
COM7_RESET == 128
CLKRC_ADDR == 17
CLKRC_PRESCALER == 1
COM3_ADDR == 12
COM3_DCW_EN == 4
COM14_ADDR == 62
COM14_MANUAL_SCALE_EN == 8
COM14_DCW_AND_PCLK_SCALE_EN == 16
COM14_PCLK_DIVIDER == 1
SCALING_XSC_ADDR == 112
SCALING_XSC_HORZ_SCALE_FACTOR == 58
SCALING_YSC_ADDR == 113
SCALING_YSC_VERT_SCALE_FACTOR == 53
SCALING_DCWCTR_ADDR == 114
SCALING_DCWCTR_HORZ_DOWNSAMPLE == 1
SCALING_DCWCTR_VERT_DOWNSAMPLE == 16
SCALING_PCLK_DIV_ADDR == 115
SCALING_PCLK_DIV_CLOCK_DIVIDER == 1
SCALING_PCLK_DELAY_ADDR == 162
SCALING_PCLK_DELAY_SCALING_OUTPUT_DELAY == 2
COM15_ADDR == 64
COM15_DATA_FORMAT == 192
COM15_RGB_OPTION == 16
COM8_ADDR == 19
COM8_AWB_ENABLE == 2
COM8_AEC_ENABLE == 1
GAIN_ADDR == 0
GAIN_AGC == 160

\* The registers calibrate writes
CalRegs ==
    {COM7_ADDR, CLKRC_ADDR, COM3_ADDR, COM14_ADDR, SCALING_XSC_ADDR,
     SCALING_YSC_ADDR, SCALING_DCWCTR_ADDR, SCALING_PCLK_DIV_ADDR,
     SCALING_PCLK_DELAY_ADDR, COM15_ADDR, COM8_ADDR, GAIN_ADDR}

-----------------------------------------------------------------------------
(* Bounds of the model *)

\* Longest buffer handed to draw_row by the display client.
MaxBuf == 3

\* Geometries the display is constructed with: ST7735::new takes any width and
\* height; 128 x 160 is the panel the firmware drives.
Panel == <<128, 160>>
Geoms == {<<1, 1>>, <<2, 3>>, <<3, 2>>}

\* Pixel codes the display client puts in its buffers.
PixelCodes == {63488, 2016, 31}

\* Rows the display client asks draw_row for: the first and the last row of a
\* frame, and one that does not fit a byte.
RowArgs == {0, 79, 300}

\* Colours the display client asks fill for.
ColorArgs == {<<>>, <<0>>, <<16744512>>}

\* What the client of the 128 x 160 panel asks for: the rows the capture
\* hands over, a buffer of no pixel or one, and the clearing fill.
PanelRowArgs == (0..8) \cup {79}
PanelBufs == {<<>>, <<65535>>}
PanelColorArgs == {<<>>}

\* Register addresses and values the register-bus client uses.
AddrArgs == {18, 255}
DataArgs == {0, 128, 255}

\* The registers the simulated peripheral holds: every byte its client may
\* send as an address or a value, and the registers calibrate writes.
DevRegs == AddrArgs \cup DataArgs \cup CalRegs

\* Test patterns of the simulated sensor.
Patterns == {0, 85, 201}

\* Every u16.
U16 == 0..65535

-----------------------------------------------------------------------------
(* Machine integers *)

U8(n) == n % 256

Min(a, b) == IF a <= b THEN a ELSE b

\* x >> k and x << k on non-negative integers
Shr(x, k) == x \div (2 ^ k)
Shl(x, k) == x * (2 ^ k)

\* x & (2^k - 1)
LowBits(x, k) == x % (2 ^ k)

\* a | b on u8
BitOr_First(a, b) == a
BitOr(a, b) ==
    LET bit(x, k) == Shr(x, k) % 2
        or(k) == IF bit(a, k) = 1 \/ bit(b, k) = 1 THEN Shl(1, k) ELSE 0
    IN  or(0) + or(1) + or(2) + or(3) + or(4) + or(5) + or(6) + or(7)

-----------------------------------------------------------------------------
(* ST7735 display driver: src/src/display.rs *)

PinState == {"Enable", "Disable"}
ControlMode == {"Data", "Command"}

SWRESET == 1
SLPOUT == 17
DISPON == 41
CASET == 42
RASET == 43
RAMWR == 44
NOP == 0
WHITE == 16777215
CLK_HZ == 16000000

\* asm::delay(CLK_HZ / 1000 * 120)
SettleCycles == (CLK_HZ \div 1000) * 120

\* Option<u32>: None is <<>>, Some(c) is <<c>>
None == <<>>
Some(c) == <<c>>

\* The one element of a set {e(v) : v \in {x}}, which is e with v bound to
\* the value of x (let v = x; e): x is evaluated once, before e
The(S) == CHOOSE r \in S : TRUE

\* One entry of log: the call made, and the levels of chip-select and
\* register-select once it has taken effect.
Ev(op, arg, val, d) ==
    [op |-> op, arg |-> arg, val |-> val, cs |-> d.cs, rs |-> d.rs]

\* The driver as the operations below see it: the three control lines, the
\* log, the indices read and whether a panic has stopped the program.
Driver(c, r, t) ==
    [cs |-> c, rs |-> r, rst |-> t, log |-> <<>>, reads |-> {}, panic |-> FALSE]

Enter(d, name) ==
    The({[e EXCEPT !.log = Append(@, Ev("call", name, 0, e))] : e \in {d}})

spi_write(d, byte) ==
    The({[e EXCEPT !.log = Append(@, Ev("spi_write", "", byte, e))] : e \in {d}})

reset(d, state) ==
    The({[e EXCEPT !.log = Append(@, Ev("reset", state, 0, e))]
         : e \in {[d EXCEPT !.rst = state]}})

chip_select(d, state) ==
    The({[e EXCEPT !.log = Append(@, Ev("chip_select", state, 0, e))]
         : e \in {[d EXCEPT !.cs = state]}})

\* register_select that leaves the line as it is
register_select_NoLine(d, mode) ==
    The({[e EXCEPT !.log = Append(@, Ev("register_select", mode, 0, e))]
         : e \in {d}})

register_select(d, mode) ==
    The({[e EXCEPT !.log = Append(@, Ev("register_select", mode, 0, e))]
         : e \in {[d EXCEPT !.rs = mode]}})

delay(d, cycles) ==
    The({[e EXCEPT !.log = Append(@, Ev("delay", "", cycles, e))] : e \in {d}})

\* The four parameter bytes of a window command, as the driver sends them:
\* 0x00, lo0, 0x00, lo1, each lo cast with `as u8`.
WindowBytes(d, lo0, lo1) ==
    spi_write(spi_write(spi_write(spi_write(d, 0), U8(lo0)), 0), U8(lo1))

\* for _ in 0..height { for _ in 0..width { R; G; B } }
FillChannel(color, k) ==
    CASE k = 0 -> U8(LowBits(Shr(color, 16), 8))
      [] k = 1 -> U8(LowBits(Shr(color, 8), 8))
      [] OTHER -> U8(LowBits(color, 8))

FillLoop(d, w, h, color) ==
    The({LET r == Ev("spi_write", "", FillChannel(color, 0), e)
             g == Ev("spi_write", "", FillChannel(color, 1), e)
             b == Ev("spi_write", "", FillChannel(color, 2), e)
         IN  [e EXCEPT !.log = @ \o [j \in 1..(3 * w * h) |->
                                       CASE (j - 1) % 3 = 0 -> r
                                         [] (j - 1) % 3 = 1 -> g
                                         [] OTHER -> b]]
         : e \in {d}})

\* Set x1: (self.width - 1) as u8 is the byte sent; the cast is WindowBytes'.
FillX1_Width(w) == w
FillX1(w) == w - 1

\* Set y1: (self.height - 1)
FillY1(h) == h - 1

\* The last two calls of fill
FillEnd_NoDeassert(d) == register_select(d, "Command")
FillEnd(d) == chip_select(register_select(d, "Command"), "Disable")

\* let color = color.unwrap_or(WHITE)
FillColor(color) == IF color = None THEN WHITE ELSE color[1]

\* fill up to the memory-write command: chip-select, NOP, the two windows
FillWindow(d0, w, h) ==
    LET d1 == chip_select(Enter(d0, "fill"), "Enable")
        d2 == spi_write(register_select(d1, "Command"), NOP)
        d3 == spi_write(register_select(d2, "Command"), CASET)
        d4 == WindowBytes(register_select(d3, "Data"), 0, FillX1(w))
        d5 == spi_write(register_select(d4, "Command"), RASET)
        d6 == WindowBytes(register_select(d5, "Data"), 0, FillY1(h))
    IN  spi_write(register_select(d6, "Command"), RAMWR)

\* fill from there on: the pixels, and the two calls that end it
FillStream(d, w, h, c) == FillEnd(FillLoop(register_select(d, "Data"), w, h, c))

fill(d0, w, h, color) == FillStream(FillWindow(d0, w, h), w, h, FillColor(color))

calibrate_WakeBeforeReset(d0, w, h) ==
    LET d1 == chip_select(Enter(d0, "calibrate"), "Disable")
        d2 == delay(reset(d1, "Enable"), SettleCycles)
        d3 == delay(reset(d2, "Disable"), SettleCycles)
        d4 == chip_select(d3, "Enable")
        d5 == delay(spi_write(register_select(d4, "Command"), SLPOUT), SettleCycles)
        d6 == delay(spi_write(d5, SWRESET), SettleCycles)
        d7 == delay(spi_write(register_select(d6, "Command"), DISPON), SettleCycles)
    IN  fill(d7, w, h, None)

calibrate(d0, w, h) ==
    LET d1 == chip_select(Enter(d0, "calibrate"), "Disable")
        d2 == delay(reset(d1, "Enable"), SettleCycles)
        d3 == delay(reset(d2, "Disable"), SettleCycles)
        d4 == chip_select(d3, "Enable")
        d5 == delay(spi_write(register_select(d4, "Command"), SWRESET), SettleCycles)
        d6 == delay(spi_write(d5, SLPOUT), SettleCycles)
        d7 == delay(spi_write(register_select(d6, "Command"), DISPON), SettleCycles)
    IN  fill(d7, w, h, None)

\* Convert RGB 565 to RGB 888, each channel cast with `as u8`
Green_Shift3(color) == U8(Shl(LowBits(Shr(color, 5), 6), 3))
Red(color) == U8(Shl(LowBits(Shr(color, 11), 5), 3))
Green(color) == U8(Shl(LowBits(Shr(color, 5), 6), 2))
Blue(color) == U8(Shl(LowBits(color, 5), 3))

PixelChannel(color, k) ==
    CASE k = 0 -> Red(color)
      [] k = 1 -> Green(color)
      [] OTHER -> Blue(color)

\* let length = self.width.min(buf.len())
RowLength_NoMin(w, buf) == w
RowLength(w, buf) == Min(w, Len(buf))

\* The last two calls of draw_row
RowEnd_NoCommand(d) == chip_select(d, "Disable")
RowEnd(d) == chip_select(register_select(d, "Command"), "Disable")

\* for i in 0..length { buf[i] ... }: indexing past the buffer panics, which
\* stops the program before the pixel is sent.
RowLoop(d, length, buf) ==
    The({LET n == Min(length, Len(buf))
         IN  [e EXCEPT !.log = @ \o [j \in 1..(3 * n) |->
                                       Ev("spi_write", "",
                                          PixelChannel(buf[((j - 1) \div 3) + 1],
                                                       (j - 1) % 3), e)],
                       !.reads = {i \in 0..(length - 1) : i <= Len(buf)},
                       !.panic = (length > Len(buf))]
         : e \in {d}})

draw_row(d0, w, row, buf) ==
    LET length == RowLength(w, buf)
        d1 == chip_select(Enter(d0, "draw_row"), "Enable")
        d2 == spi_write(register_select(d1, "Command"), NOP)
        d3 == spi_write(register_select(d2, "Command"), CASET)
        d4 == WindowBytes(register_select(d3, "Data"), row, row)
        d5 == spi_write(register_select(d4, "Command"), RASET)
        d6 == WindowBytes(register_select(d5, "Data"), 0, length - 1)
        d7 == spi_write(register_select(d6, "Command"), RAMWR)
        d8 == RowLoop(register_select(d7, "Data"), length, buf)
    IN  IF length = 0 THEN Enter(d0, "draw_row")
        ELSE The({IF d.panic THEN d ELSE RowEnd(d) : d \in {d8}})

-----------------------------------------------------------------------------
(* OV7670 register bus: src/src/camera.rs, sccb_write and sccb_read *)

Byte == 0..255

I2C_ADDR == 33
READ == 1
WRITE == 0

\* (OV7670::I2C_ADDR << 1) | rw, a u8
DevByte(rw) == U8(Shl(I2C_ADDR, 1) + rw)

NoByte == 0 - 1

BusEv(op, arg, val) == [op |-> op, arg |-> arg, val |-> val]

Flag(name) ==
    CASE name = "SB" -> i2c.sb
      [] name = "ADDR" -> i2c.addr
      [] name = "BTF" -> i2c.btf
      [] OTHER -> i2c.rx_ne

\* self.i2c1.cr1.modify(|_, w| w.start().set_bit())
SetStart(from, to) ==
    /\ pc = from
    /\ pc' = to
    /\ i2c' = [i2c EXCEPT !.start = TRUE]
    /\ busLog' = Append(busLog, BusEv("cr1", "START", 0))
    /\ UNCHANGED <<bus, sccb, shadow, busFrame>>

\* while self.i2c1.sr1.read().<flag>().bit_is_clear() {}: the loop is left
\* by the read that finds the flag set; val is what that read found.
WaitFlag_NoPoll(from, name, to) ==
    /\ pc = from
    /\ pc' = to
    /\ busLog' = Append(busLog, BusEv("wait", name, IF Flag(name) THEN 1 ELSE 0))
    /\ UNCHANGED <<i2c, bus, sccb, shadow, busFrame>>

WaitFlag(from, name, to) ==
    /\ pc = from
    /\ Flag(name)
    /\ pc' = to
    /\ busLog' = Append(busLog, BusEv("wait", name, 1))
    /\ UNCHANGED <<i2c, bus, sccb, shadow, busFrame>>

\* self.i2c1.dr.write(|w| w.dr().bits(byte)): the byte goes to the shifter;
\* following a read of SR1, the write clears SB and BTF.
WriteDR(from, byte, to) ==
    /\ pc = from
    /\ pc' = to
    /\ i2c' = [i2c EXCEPT !.dr = byte, !.sb = FALSE, !.btf = FALSE]
    /\ bus' = [bus EXCEPT !.tx = byte]
    /\ busLog' = Append(busLog, BusEv("dr_write", "", byte))
    /\ UNCHANGED <<sccb, shadow, busFrame>>

\* self.i2c1.sr2.read().bits(): following the read of SR1 that found ADDR
\* set, this clears ADDR; the addressed peripheral goes on to the next phase.
ReadSR2(from, to) ==
    /\ pc = from
    /\ pc' = to
    /\ i2c' = [i2c EXCEPT !.addr = FALSE]
    /\ bus' = [bus EXCEPT !.phase = CASE i2c.addr /\ bus.phase = "addr_w" -> "sub"
                                      [] i2c.addr /\ bus.phase = "addr_r" -> "rx"
                                      [] OTHER -> @]
    /\ busLog' = Append(busLog, BusEv("sr2_read", "", 0))
    /\ UNCHANGED <<sccb, shadow, busFrame>>

\* self.i2c1.cr1.modify(|_, w| w.stop().set_bit())
SetStop(from, to) ==
    /\ pc = from
    /\ pc' = to
    /\ i2c' = [i2c EXCEPT !.stop = TRUE]
    /\ busLog' = Append(busLog, BusEv("cr1", "STOP", 0))
    /\ UNCHANGED <<bus, sccb, shadow, busFrame>>

\* self.i2c1.cr1.modify(|_, w| w.ack().clear_bit().stop().set_bit())
SetNackStop(from, to) ==
    /\ pc = from
    /\ pc' = to
    /\ i2c' = [i2c EXCEPT !.ack = FALSE, !.stop = TRUE]
    /\ busLog' = Append(busLog, BusEv("cr1", "NACK+STOP", 0))
    /\ UNCHANGED <<bus, sccb, shadow, busFrame>>

\* fn sccb_write(&self, addr: u8, data: u8)
SccbWriteCall(addr, data) ==
    /\ pc = "idle" /\ ~halted
    /\ pc' = "w_start"
    /\ sccb' = [op |-> "write", addr |-> addr, data |-> data, ret |-> NoByte]
    /\ busLog' = <<>>
    /\ UNCHANGED <<i2c, bus, shadow, busFrame>>

\* The last statement of sccb_write, and its return
SccbWriteReturn ==
    /\ pc = "w_stop"
    /\ pc' = "idle"
    /\ i2c' = [i2c EXCEPT !.stop = TRUE]
    /\ busLog' = Append(busLog, BusEv("cr1", "STOP", 0))
    /\ shadow' = [shadow EXCEPT ![sccb.addr] = sccb.data]
    /\ UNCHANGED <<bus, sccb, busFrame>>

SccbWrite_DataFirst ==
    \/ SetStart("w_start", "w_wait_sb")
    \/ WaitFlag("w_wait_sb", "SB", "w_dev")
    \/ WriteDR("w_dev", DevByte(WRITE), "w_wait_addr")
    \/ WaitFlag("w_wait_addr", "ADDR", "w_sr2")
    \/ ReadSR2("w_sr2", "w_reg")
    \/ WriteDR("w_reg", sccb.data, "w_wait_btf1")
    \/ WaitFlag("w_wait_btf1", "BTF", "w_data")
    \/ WriteDR("w_data", sccb.addr, "w_wait_btf2")
    \/ WaitFlag("w_wait_btf2", "BTF", "w_stop")
    \/ SccbWriteReturn

SccbWrite ==
    \/ SetStart("w_start", "w_wait_sb")
    \/ WaitFlag("w_wait_sb", "SB", "w_dev")
    \/ WriteDR("w_dev", DevByte(WRITE), "w_wait_addr")
    \/ WaitFlag("w_wait_addr", "ADDR", "w_sr2")
    \/ ReadSR2("w_sr2", "w_reg")
    \/ WriteDR("w_reg", sccb.addr, "w_wait_btf1")
    \/ WaitFlag("w_wait_btf1", "BTF", "w_data")
    \/ WriteDR("w_data", sccb.data, "w_wait_btf2")
    \/ WaitFlag("w_wait_btf2", "BTF", "w_stop")
    \/ SccbWriteReturn

\* fn sccb_read(&self, addr: u8) -> u8
SccbReadCall(addr) ==
    /\ pc = "idle" /\ ~halted
    /\ pc' = "r_start"
    /\ sccb' = [op |-> "read", addr |-> addr, data |-> NoByte, ret |-> NoByte]
    /\ busLog' = <<>>
    /\ UNCHANGED <<i2c, bus, shadow, busFrame>>

\* self.i2c1.dr.read().dr().bits(), the value sccb_read returns; following a
\* read of SR1, the read of DR clears RxNE.
SccbReadReturn ==
    /\ pc = "r_data"
    /\ pc' = "idle"
    /\ sccb' = [sccb EXCEPT !.ret = i2c.dr]
    /\ i2c' = [i2c EXCEPT !.rx_ne = FALSE]
    /\ busLog' = Append(busLog, BusEv("dr_read", "", i2c.dr))
    /\ UNCHANGED <<bus, shadow, busFrame>>

SccbRead_NoStop ==
    \/ SetStart("r_start", "r_wait_sb")
    \/ WaitFlag("r_wait_sb", "SB", "r_dev")
    \/ WriteDR("r_dev", DevByte(WRITE), "r_wait_addr")
    \/ WaitFlag("r_wait_addr", "ADDR", "r_sr2")
    \/ ReadSR2("r_sr2", "r_reg")
    \/ WriteDR("r_reg", sccb.addr, "r_wait_btf")
    \/ WaitFlag("r_wait_btf", "BTF", "r_start2")
    \/ SetStart("r_start2", "r_wait_sb2")
    \/ WaitFlag("r_wait_sb2", "SB", "r_dev2")
    \/ WriteDR("r_dev2", DevByte(READ), "r_wait_addr2")
    \/ WaitFlag("r_wait_addr2", "ADDR", "r_sr2b")
    \/ ReadSR2("r_sr2b", "r_nack")
    \/ SetNackStop("r_nack", "r_wait_rxne")
    \/ WaitFlag("r_wait_rxne", "RxNE", "r_data")
    \/ SccbReadReturn

SccbRead ==
    \/ SetStart("r_start", "r_wait_sb")
    \/ WaitFlag("r_wait_sb", "SB", "r_dev")
    \/ WriteDR("r_dev", DevByte(WRITE), "r_wait_addr")
    \/ WaitFlag("r_wait_addr", "ADDR", "r_sr2")
    \/ ReadSR2("r_sr2", "r_reg")
    \/ WriteDR("r_reg", sccb.addr, "r_wait_btf")
    \/ WaitFlag("r_wait_btf", "BTF", "r_stop")
    \/ SetStop("r_stop", "r_start2")
    \/ SetStart("r_start2", "r_wait_sb2")
    \/ WaitFlag("r_wait_sb2", "SB", "r_dev2")
    \/ WriteDR("r_dev2", DevByte(READ), "r_wait_addr2")
    \/ WaitFlag("r_wait_addr2", "ADDR", "r_sr2b")
    \/ ReadSR2("r_sr2b", "r_nack")
    \/ SetNackStop("r_nack", "r_wait_rxne")
    \/ WaitFlag("r_wait_rxne", "RxNE", "r_data")
    \/ SccbReadReturn

-----------------------------------------------------------------------------
(* The simulated register peripheral behind I2C1: it acknowledges every     *)
(* phase.  A write transaction is device address, register address, value;  *)
(* a read transaction returns the register the pointer is at.               *)

\* A stop condition: generated once no byte is being shifted; it ends the
\* transaction and clears BTF.
HwStop ==
    /\ i2c.stop
    /\ bus.tx = NoByte
    /\ bus.phase # "rx"
    /\ i2c' = [i2c EXCEPT !.stop = FALSE, !.btf = FALSE]
    /\ bus' = [bus EXCEPT !.phase = "idle"]
    /\ UNCHANGED <<pc, sccb, busLog, shadow, busFrame>>

\* A start condition: generated on a free bus; sets SB.
HwStart ==
    /\ i2c.start
    /\ ~i2c.stop
    /\ bus.phase = "idle"
    /\ i2c' = [i2c EXCEPT !.start = FALSE, !.sb = TRUE]
    /\ bus' = [bus EXCEPT !.phase = "started"]
    /\ UNCHANGED <<pc, sccb, busLog, shadow, busFrame>>

\* The byte in the shifter goes out and is acknowledged.
HwShift ==
    /\ bus.tx # NoByte
    /\ \/ /\ bus.phase = "started"
          /\ bus.tx \in {DevByte(WRITE), DevByte(READ)}
          /\ i2c' = [i2c EXCEPT !.addr = TRUE]
          /\ bus' = [bus EXCEPT !.tx = NoByte,
                                !.phase = IF bus.tx = DevByte(WRITE)
                                          THEN "addr_w" ELSE "addr_r"]
       \/ /\ bus.phase = "sub"
          /\ i2c' = [i2c EXCEPT !.btf = TRUE]
          /\ bus' = [bus EXCEPT !.tx = NoByte, !.ptr = bus.tx, !.phase = "value"]
       \/ /\ bus.phase = "value"
          /\ i2c' = [i2c EXCEPT !.btf = TRUE]
          /\ bus' = [bus EXCEPT !.tx = NoByte, !.regs[bus.ptr] = bus.tx,
                                !.phase = "written"]
    /\ UNCHANGED <<pc, sccb, busLog, shadow, busFrame>>

\* The peripheral sends the register the pointer is at; the byte lands in DR.
HwReceive ==
    /\ bus.phase = "rx"
    /\ i2c' = [i2c EXCEPT !.dr = bus.regs[bus.ptr], !.rx_ne = TRUE]
    /\ bus' = [bus EXCEPT !.phase = "received"]
    /\ UNCHANGED <<pc, sccb, busLog, shadow, busFrame>>

Hw == HwStop \/ HwStart \/ HwShift \/ HwReceive

\* OV7670::new enables I2C1 and leaves its flags as reset leaves them.
InitI2C ==
    /\ i2c = [start |-> FALSE, stop |-> FALSE, ack |-> FALSE, sb |-> FALSE,
              addr |-> FALSE, btf |-> FALSE, rx_ne |-> FALSE, dr |-> 0]
    /\ bus = [phase |-> "idle", tx |-> NoByte, ptr |-> 0, regs |-> [a \in DevRegs |-> 0]]
    /\ sccb = [op |-> "none", addr |-> NoByte, data |-> NoByte, ret |-> NoByte]
    /\ busLog = <<>>
    /\ shadow = [a \in DevRegs |-> NoByte]
    /\ cal = [i |-> 0, log |-> <<>>, returned |-> FALSE]

-----------------------------------------------------------------------------
(* Sensor set-up: src/src/camera.rs, calibrate *)

CalWrite(addr, data) == [op |-> "write", addr |-> addr, data |-> data, cycles |-> 0]
CalDelay(cycles) == [op |-> "delay", addr |-> NoByte, data |-> NoByte, cycles |-> cycles]

\* The statements of calibrate, in order
CalSteps_DelayLate ==
    << CalWrite(COM7_ADDR, COM7_RESET),
       CalWrite(COM7_ADDR, BitOr(COM7_RGB_SELECT, COM7_QVGA_SELECT)),
       CalDelay(SettleCycles),
       CalWrite(CLKRC_ADDR, CLKRC_PRESCALER),
       CalWrite(COM3_ADDR, COM3_DCW_EN),
       CalWrite(COM14_ADDR,
                BitOr(BitOr(COM14_MANUAL_SCALE_EN, COM14_DCW_AND_PCLK_SCALE_EN),
                      COM14_PCLK_DIVIDER)),
       CalWrite(SCALING_XSC_ADDR, SCALING_XSC_HORZ_SCALE_FACTOR),
       CalWrite(SCALING_YSC_ADDR, SCALING_YSC_VERT_SCALE_FACTOR),
       CalWrite(SCALING_DCWCTR_ADDR,
                BitOr(SCALING_DCWCTR_HORZ_DOWNSAMPLE, SCALING_DCWCTR_VERT_DOWNSAMPLE)),
       CalWrite(SCALING_PCLK_DIV_ADDR, SCALING_PCLK_DIV_CLOCK_DIVIDER),
       CalWrite(SCALING_PCLK_DELAY_ADDR, SCALING_PCLK_DELAY_SCALING_OUTPUT_DELAY),
       CalWrite(COM15_ADDR, BitOr(COM15_DATA_FORMAT, COM15_RGB_OPTION)),
       CalWrite(COM8_ADDR, BitOr(COM8_AWB_ENABLE, COM8_AEC_ENABLE)),
       CalWrite(GAIN_ADDR, GAIN_AGC) >>

CalSteps ==
    << CalWrite(COM7_ADDR, COM7_RESET),
       CalDelay(SettleCycles),
       CalWrite(COM7_ADDR, BitOr(COM7_RGB_SELECT, COM7_QVGA_SELECT)),
       CalWrite(CLKRC_ADDR, CLKRC_PRESCALER),
       CalWrite(COM3_ADDR, COM3_DCW_EN),
       CalWrite(COM14_ADDR,
                BitOr(BitOr(COM14_MANUAL_SCALE_EN, COM14_DCW_AND_PCLK_SCALE_EN),
                      COM14_PCLK_DIVIDER)),
       CalWrite(SCALING_XSC_ADDR, SCALING_XSC_HORZ_SCALE_FACTOR),
       CalWrite(SCALING_YSC_ADDR, SCALING_YSC_VERT_SCALE_FACTOR),
       CalWrite(SCALING_DCWCTR_ADDR,
                BitOr(SCALING_DCWCTR_HORZ_DOWNSAMPLE, SCALING_DCWCTR_VERT_DOWNSAMPLE)),
       CalWrite(SCALING_PCLK_DIV_ADDR, SCALING_PCLK_DIV_CLOCK_DIVIDER),
       CalWrite(SCALING_PCLK_DELAY_ADDR, SCALING_PCLK_DELAY_SCALING_OUTPUT_DELAY),
       CalWrite(COM15_ADDR, BitOr(COM15_DATA_FORMAT, COM15_RGB_OPTION)),
       CalWrite(COM8_ADDR, BitOr(COM8_AWB_ENABLE, COM8_AEC_ENABLE)),
       CalWrite(GAIN_ADDR, GAIN_AGC) >>

\* fn calibrate(&self)
CamCalibrateCall ==
    /\ pc = "idle" /\ ~halted
    /\ cal.i = 0
    /\ cal' = [i |-> 1, log |-> <<>>, returned |-> FALSE]
    /\ UNCHANGED <<pc, halted, dispVars, i2cVars, recVars, capVars>>

\* self.sccb_write(addr, data): the call; the write itself is SccbWrite, and
\* calibrate goes on when it has returned
CamWrite ==
    /\ pc = "idle"
    /\ cal.i \in DOMAIN CalSteps
    /\ CalSteps[cal.i].op = "write"
    /\ pc' = "w_start"
    /\ sccb' = [op |-> "write", addr |-> CalSteps[cal.i].addr,
                data |-> CalSteps[cal.i].data, ret |-> NoByte]
    /\ busLog' = <<>>
    /\ cal' = [cal EXCEPT !.i = @ + 1, !.log = Append(@, CalSteps[cal.i])]
    /\ UNCHANGED <<i2c, bus, shadow, halted, dispVars, recVars, capVars>>

\* asm::delay(CLK_HZ / 1000 * 120)
CamDelay ==
    /\ pc = "idle"
    /\ cal.i \in DOMAIN CalSteps
    /\ CalSteps[cal.i].op = "delay"
    /\ cal' = [cal EXCEPT !.i = @ + 1, !.log = Append(@, CalSteps[cal.i])]
    /\ UNCHANGED <<pc, halted, dispVars, i2cVars, recVars, capVars>>

\* the end of calibrate
CamReturn ==
    /\ pc = "idle"
    /\ cal.i = Len(CalSteps) + 1
    /\ cal' = [cal EXCEPT !.i = 0, !.returned = TRUE]
    /\ UNCHANGED <<pc, halted, dispVars, i2cVars, recVars, capVars>>

CamCalibrate == CamWrite \/ CamDelay \/ CamReturn

-----------------------------------------------------------------------------
(* Bus recovery: src/src/camera.rs, flush_i2c_bus *)

\* OV7670::new: PB8 and PB9 open-drain, pulled up, alternate function 4.
\* It never writes the output latches, which hold what the port holds.
InitGpiob ==
    \E l8 \in {0, 1}, l9 \in {0, 1} :
        gpiob = [moder8 |-> "alternate", moder9 |-> "alternate",
                 afrh8 |-> 4, afrh9 |-> 4,
                 ot8 |-> "open_drain", ot9 |-> "open_drain",
                 pupdr8 |-> "pull_up", pupdr9 |-> "pull_up",
                 odr8 |-> l8, odr9 |-> l9]

InitRec ==
    /\ InitGpiob
    /\ sdaHeld \in BOOLEAN
    /\ fl = [i |-> 0, pulses |-> 0, edges |-> 0, returned |-> FALSE,
            low |-> FALSE, ret |-> "none"]

\* self.gpiob.idr.read().idr9().bit_is_set(): the open-drain line is high
\* when neither end drives it low.
SdaIsHigh == gpiob.odr9 = 1 /\ ~sdaHeld

\* w.bs8().set_bit() on the output PB8: 1 when it takes SCL from low to high
SclRises == IF gpiob.moder8 = "output" /\ gpiob.odr8 = 0 THEN 1 ELSE 0

\* for _ in 0..9: the loop is over after 9 iterations
LoopDone_OneMore(i) == i > 9
LoopDone(i) == i >= 9

FlushCall ==
    /\ pc = "idle" /\ ~halted
    /\ pc' = "f_outputs"
    /\ fl' = [i |-> 0, pulses |-> 0, edges |-> 0, returned |-> FALSE,
            low |-> FALSE, ret |-> "none"]
    /\ UNCHANGED <<gpiob, sdaHeld, recFrame>>

\* Re-configure SCL and SDA as outputs
FlushOutputs ==
    /\ pc = "f_outputs"
    /\ pc' = "f_idle"
    /\ gpiob' = [gpiob EXCEPT !.moder8 = "output", !.moder9 = "output"]
    /\ UNCHANGED <<fl, sdaHeld, recFrame>>

\* Attempt to put the bus into the IDLE state (SCL & SDA high)
FlushIdle ==
    /\ pc = "f_idle"
    /\ pc' = "f_for"
    /\ gpiob' = [gpiob EXCEPT !.odr8 = 1, !.odr9 = 1]
    /\ fl' = [fl EXCEPT !.edges = @ + SclRises]
    /\ UNCHANGED <<sdaHeld, recFrame>>

\* for _ in 0..9 {
FlushFor ==
    /\ pc = "f_for"
    /\ pc' = IF LoopDone(fl.i) THEN "f_stop_sda_low" ELSE "f_check"
    /\ fl' = [fl EXCEPT !.low = LoopDone(fl.i) /\ ~SdaIsHigh]
    /\ UNCHANGED <<gpiob, sdaHeld, recFrame>>

\* if SDA is high { break; }
FlushCheck ==
    /\ pc = "f_check"
    /\ pc' = IF SdaIsHigh THEN "f_stop_sda_low" ELSE "f_scl_low"
    /\ UNCHANGED <<gpiob, fl, sdaHeld, recFrame>>

\* SCL low; delay
FlushSclLow ==
    /\ pc = "f_scl_low"
    /\ pc' = "f_scl_high"
    /\ gpiob' = [gpiob EXCEPT !.odr8 = 0]
    /\ UNCHANGED <<fl, sdaHeld, recFrame>>

\* SCL high; delay; } -- one clock pulse has been driven
FlushSclHigh ==
    /\ pc = "f_scl_high"
    /\ pc' = "f_for"
    /\ gpiob' = [gpiob EXCEPT !.odr8 = 1]
    /\ fl' = [fl EXCEPT !.i = @ + 1, !.pulses = @ + 1, !.edges = @ + SclRises]
    /\ UNCHANGED <<sdaHeld, recFrame>>

\* Generate a manual stop signal: SDA low; SCL high; SDA high
FlushStopSdaLow ==
    /\ pc = "f_stop_sda_low"
    /\ pc' = "f_stop_scl_high"
    /\ gpiob' = [gpiob EXCEPT !.odr9 = 0]
    /\ UNCHANGED <<fl, sdaHeld, recFrame>>

FlushStopSclHigh ==
    /\ pc = "f_stop_scl_high"
    /\ pc' = "f_stop_sda_high"
    /\ gpiob' = [gpiob EXCEPT !.odr8 = 1]
    /\ fl' = [fl EXCEPT !.edges = @ + SclRises]
    /\ UNCHANGED <<sdaHeld, recFrame>>

FlushStopSdaHigh ==
    /\ pc = "f_stop_sda_high"
    /\ pc' = "f_restore_scl"
    /\ gpiob' = [gpiob EXCEPT !.odr9 = 1]
    /\ UNCHANGED <<fl, sdaHeld, recFrame>>

\* Restore SCL as I2C1_SCL
FlushRestoreScl ==
    /\ pc = "f_restore_scl"
    /\ pc' = "f_restore_sda"
    /\ gpiob' = [gpiob EXCEPT !.moder8 = "alternate", !.afrh8 = 4]
    /\ UNCHANGED <<fl, sdaHeld, recFrame>>

\* The return with SDA left a plain output
FlushRestoreSda_NoMode ==
    /\ pc = "f_restore_sda"
    /\ pc' = "idle"
    /\ gpiob' = [gpiob EXCEPT !.afrh9 = 4]
    /\ fl' = [fl EXCEPT !.returned = TRUE, !.ret = "unit"]
    /\ UNCHANGED <<sdaHeld, recFrame>>

\* Restore SDA as I2C1_SDA, and return
FlushRestoreSda ==
    /\ pc = "f_restore_sda"
    /\ pc' = "idle"
    /\ gpiob' = [gpiob EXCEPT !.moder9 = "alternate", !.afrh9 = 4]
    /\ fl' = [fl EXCEPT !.returned = TRUE, !.ret = "unit"]
    /\ UNCHANGED <<sdaHeld, recFrame>>

Flush ==
    \/ FlushOutputs
    \/ FlushIdle
    \/ FlushFor
    \/ FlushCheck
    \/ FlushSclLow
    \/ FlushSclHigh
    \/ FlushStopSdaLow
    \/ FlushStopSclHigh
    \/ FlushStopSdaHigh
    \/ FlushRestoreScl
    \/ FlushRestoreSda

\* The OV7670 end of SDA: it takes the line low or lets it go at any time.
SdaHold ==
    /\ ~sdaHeld
    /\ sdaHeld' = TRUE
    /\ UNCHANGED <<pc, gpiob, fl, recFrame>>

SdaRelease ==
    /\ sdaHeld
    /\ sdaHeld' = FALSE
    /\ UNCHANGED <<pc, gpiob, fl, recFrame>>

-----------------------------------------------------------------------------
(* The display client: any top-level call, in any order *)

Call(op, row, buf, color) ==
    [op |-> op, row |-> row, buf |-> buf, color |-> color, csIn |-> cs]

\* ST7735::new stores width and height and configures the pins; it drives none
\* of the three control lines, so their levels are whatever the port holds.
InitDisplay(geoms) ==
    /\ \E g \in geoms : width = g[1] /\ height = g[2]
    /\ cs \in PinState
    /\ rs \in ControlMode
    /\ rst \in PinState
    /\ log = <<>>
    /\ reads = {}
    /\ last = Call("new", 0, <<>>, None)

\* The call has run: its effects on the lines, the log, and the program.
DisplayEffect(done, call) ==
    /\ \E d \in {done} :
          /\ cs' = d.cs
          /\ rs' = d.rs
          /\ rst' = d.rst
          /\ log' = d.log
          /\ reads' = d.reads
          /\ halted' = d.panic
    /\ last' = call
    /\ UNCHANGED <<width, height, sample>>

Commit(d, call) == DisplayEffect(d, call) /\ UNCHANGED dispFrame

Bufs == UNION {[1..n -> PixelCodes] : n \in 0..MaxBuf}

DisplayCalibrate ==
    /\ pc = "idle" /\ ~halted
    /\ Commit(calibrate(Driver(cs, rs, rst), width, height),
              Call("calibrate", 0, <<>>, None))

DisplayFill(colors) ==
    /\ pc = "idle" /\ ~halted
    /\ \E color \in colors :
          Commit(fill(Driver(cs, rs, rst), width, height, color),
                 Call("fill", 0, <<>>, color))

\* fill in two steps: up to the memory-write command, then the rest
DisplayFillBegin(colors) ==
    /\ pc = "idle" /\ ~halted
    /\ pc' = "fill_stream"
    /\ \E color \in colors :
          DisplayEffect(FillWindow(Driver(cs, rs, rst), width, height),
                        Call("fill", 0, <<>>, color))
    /\ UNCHANGED <<i2cVars, recVars, capVars, calVars>>

DisplayFillFinish ==
    /\ pc = "fill_stream"
    /\ pc' = "idle"
    /\ DisplayEffect(FillStream([Driver(cs, rs, rst) EXCEPT !.log = log],
                                width, height, FillColor(last.color)),
                     last)
    /\ UNCHANGED <<i2cVars, recVars, capVars, calVars>>

DisplayDrawRow(rows, bufs) ==
    /\ pc = "idle" /\ ~halted
    /\ \E row \in rows, buf \in bufs :
          Commit(draw_row(Driver(cs, rs, rst), width, row, buf),
                 Call("draw_row", row, buf, None))

\* The conversion: one draw_row of the one-pixel buffer <<sample>>.
DisplayDrawSample ==
    /\ pc = "idle" /\ ~halted
    /\ last.op = "new"
    /\ Commit(draw_row(Driver(cs, rs, rst), width, 0, <<sample>>),
              Call("draw_row", 0, <<sample>>, None))

-----------------------------------------------------------------------------
(* The simulated sensor: one frame, as the sequence of levels the sensor     *)
(* puts on its lines.  Level 0 is all low; then one vsync pulse; then, for   *)
(* each line, hsync rises with pclk low and every byte is put on the data    *)
(* lines at a pclk rising edge, two bytes to the pixel; hsync falls with the *)
(* pclk falling edge of the line's last byte, or f.drop levels before it     *)
(* while pclk and the data go on to the end of the line.  A frame gives      *)
(* every line a                                                              *)
(* slot of f.cols pixels; an odd-numbered line sends f.odd =< f.cols of them *)
(* and leaves its lines low for the rest of the slot.  The sensor holds a    *)
(* level until the capture has seen it: the capture's place in the sequence  *)
(* moves in its polling loops, and by f.late levels during each draw_row,    *)
(* when nothing polls (0 for a sensor that waits for the capture).           *)

\* Byte b (0 or 1) of pixel pix of line `line` in test pattern p
SimByte(p, line, pix, b) == (p + 37 * line + 2 * pix + b) % 256

\* Levels of one line: the hsync edge and four per pixel
SimLineLen(f) == 1 + 4 * f.cols
\* Pixels sent in line `line`
LineCols(f, line) == IF line % 2 = 1 THEN f.odd ELSE f.cols
\* The last level of the frame
SimEnd(f) == 2 + f.lines * SimLineLen(f)

Level(v, h, p, d) == [vsync |-> v, hsync |-> h, pclk |-> p, data |-> d]

\* A sensor that stops holds the levels of place f.stop for ever; one that
\* does not stop delivers the whole frame
NoStop == 0 - 1
StopAt(f) == IF f.stop = NoStop THEN SimEnd(f) ELSE f.stop

\* The level at place t of frame f
Sim(f, t) ==
    IF t = 1 THEN Level(TRUE, FALSE, FALSE, 0)
    ELSE IF t < 3 \/ t > SimEnd(f) THEN Level(FALSE, FALSE, FALSE, 0)
    ELSE LET line == (t - 3) \div SimLineLen(f)
             k == (t - 3) % SimLineLen(f)
         IN  IF k = 0 THEN Level(FALSE, TRUE, FALSE, 0)
             ELSE IF k > 4 * LineCols(f, line) THEN Level(FALSE, FALSE, FALSE, 0)
             ELSE LET pix == (k - 1) \div 4
                      b == ((k - 1) % 4) \div 2
                      high == (k - 1) % 2 = 0
                  IN  Level(FALSE, k < 4 * LineCols(f, line) - f.drop, high,
                            SimByte(f.pattern, line, pix, b))

-----------------------------------------------------------------------------
(* Frame capture: src/src/camera.rs, draw_frame *)

\* for y in 0..80
FrameRows == 80
\* let mut buf: [u16; 160] = [0; 160]
RowWidth == 160

\* read_vsync, read_hsync, read_pclk, read_data at place t: the level of
\* place t, or of the place the sensor has stopped at
read(f, t, line) == Sim(f, Min(t, StopAt(f)))[line]

\* The levels a polling loop has read on a line from place a to place b, a
\* level that is read again left out
RECURSIVE Polled(_, _, _, _)
Polled(f, line, a, b) ==
    IF a > b THEN <<>>
    ELSE IF a = b THEN <<read(f, b, line)>>
    ELSE LET before == Polled(f, line, a, b - 1)
         IN  IF before[Len(before)] = read(f, b, line) THEN before
             ELSE Append(before, read(f, b, line))

\* Concat data MSB and LSB: ((data_msb as u16) << 8) | (data_lsb as u16)
Concat_LsbFirst(msb, lsb) == Shl(lsb, 8) + msb
Concat(msb, lsb) == Shl(msb, 8) + lsb


\* while self.read_x() != level {}: the first place from t on where the line
\* is at the level; past the frame's end when it never is (the loop spins)
RECURSIVE Wait(_, _, _, _)
Wait(f, from, line, level) ==
    The({IF t > SimEnd(f) \/ read(f, t, line) = level
         THEN t
         ELSE IF t >= StopAt(f) THEN SimEnd(f) + 1
         ELSE Wait(f, t + 1, line, level)
         : t \in {from}})

Spins(f, t) == t > SimEnd(f)

\* The turn without `if x < 160`, on a buffer that grows when written past
\* its end
HsyncTurn_NoGuard(f, cols, st) ==
    IF Spins(f, st.t) \/ ~read(f, st.t, "hsync")
    THEN st
    ELSE LET t1 == Wait(f, st.t, "pclk", TRUE)
             data_msb == read(f, t1, "data")
             t2 == Wait(f, t1, "pclk", FALSE)
             t3 == Wait(f, t2, "pclk", TRUE)
             data_lsb == read(f, t3, "data")
             data == Concat(data_msb, data_lsb)
             t4 == Wait(f, t3, "pclk", FALSE)
         IN  [t |-> t4,
              x |-> st.x + 1,
              buf |-> IF st.x < Len(st.buf) THEN [st.buf EXCEPT ![st.x + 1] = data]
                      ELSE Append(st.buf, data)]

\* One turn of while self.read_hsync() { ... }, from place st.t with x = st.x
\* and buf = st.buf; nothing when hsync is low, for the loop is then over
HsyncTurn(f, cols, st) ==
    IF Spins(f, st.t) \/ ~read(f, st.t, "hsync")
    THEN st
    ELSE LET t1 == Wait(f, st.t, "pclk", TRUE)
             data_msb == read(f, t1, "data")
             t2 == Wait(f, t1, "pclk", FALSE)
             t3 == Wait(f, t2, "pclk", TRUE)
             data_lsb == read(f, t3, "data")
             data == Concat(data_msb, data_lsb)
             t4 == Wait(f, t3, "pclk", FALSE)
         IN  [t |-> t4,
              x |-> st.x + 1,
              buf |-> IF st.x < cols THEN [st.buf EXCEPT ![st.x + 1] = data]
                      ELSE st.buf]

\* n turns of the loop, one after the other, as long as hsync is high
RECURSIVE Turns(_, _, _, _)
Turns(f, cols, entry, n) ==
    The({IF n = 0 THEN st
         ELSE IF n = 1 THEN HsyncTurn(f, cols, st)
         ELSE The({IF Spins(f, half.t) \/ ~read(f, half.t, "hsync")
                   THEN half
                   ELSE Turns(f, cols, half, n - n \div 2)
                   : half \in {Turns(f, cols, st, n \div 2)}})
         : st \in {entry}})

\* while self.read_hsync() { ... }: the place, x and buf it ends with.  Each
\* turn moves on by two levels or more, so a line's levels bound the turns.
WhileHsync(f, cols, t, x, buf) ==
    Turns(f, cols, [t |-> t, x |-> x, buf |-> buf], SimLineLen(f))

CaptureCall ==
    /\ pc = "idle" /\ ~halted
    /\ pc' = "c_vsync"
    /\ cap' = [cap EXCEPT !.rows = 0, !.returned = FALSE,
                          !.seen = <<>>, !.hist = <<>>]
    /\ UNCHANGED <<halted, sen, dispVars, capFrame>>

\* while !self.read_vsync() {}; while self.read_vsync() {};
\* let mut buf: [u16; 160] = [0; 160]; for y in 0..
CapVsync(cols) ==
    /\ pc = "c_vsync"
    /\ \E t1 \in {Wait(sen, cap.t, "vsync", TRUE)} :
       \E t2 \in {Wait(sen, t1, "vsync", FALSE)} :
           /\ ~Spins(sen, t2)
           /\ cap' = [cap EXCEPT !.t = t2, !.y = 0, !.buf = [i \in 1..cols |-> 0],
                                 !.seen = Polled(sen, "vsync", cap.t, t2)]
    /\ pc' = "c_for"
    /\ UNCHANGED <<halted, sen, dispVars, capFrame>>

\* The turn with a bound on its waits: when a level never comes, draw_frame
\* gives up and returns
CapRow_GiveUp(rows, cols) ==
    /\ pc = "c_for"
    /\ cap.y < rows
    /\ \E t1 \in {Wait(sen, cap.t, "hsync", TRUE)} :
       \E row \in {WhileHsync(sen, cols, t1, 0, cap.buf)} :
           IF Spins(sen, row.t)
           THEN /\ pc' = "idle"
                /\ cap' = [cap EXCEPT !.returned = TRUE]
                /\ UNCHANGED <<halted, dispVars>>
           ELSE /\ DisplayEffect(draw_row(Driver(cs, rs, rst), width, cap.y, row.buf),
                                 Call("draw_row", cap.y, row.buf, None))
                /\ cap' = [cap EXCEPT !.t = row.t + sen.late, !.x = row.x,
                                      !.buf = row.buf,
                                      !.y = @ + 1, !.rows = @ + 1,
                                      !.hist = Append(@, [y |-> cap.y, from |-> t1,
                                                          x |-> row.x,
                                                          drawn |-> row.t])]
                /\ pc' = "c_for"
    /\ UNCHANGED <<sen, capFrame>>

\* The turn with draw_row called as soon as hsync is high, before the pixels
CapRow_DrawFirst(rows, cols) ==
    /\ pc = "c_for"
    /\ cap.y < rows
    /\ \E t1 \in {Wait(sen, cap.t, "hsync", TRUE)} :
       \E row \in {WhileHsync(sen, cols, t1, 0, cap.buf)} :
           /\ ~Spins(sen, row.t)
           /\ DisplayEffect(draw_row(Driver(cs, rs, rst), width, cap.y, cap.buf),
                            Call("draw_row", cap.y, cap.buf, None))
           /\ cap' = [cap EXCEPT !.t = row.t + sen.late, !.x = row.x, !.buf = row.buf,
                                 !.y = @ + 1, !.rows = @ + 1,
                                 !.hist = Append(@, [y |-> cap.y, from |-> t1,
                                                     x |-> row.x,
                                                     drawn |-> t1])]
    /\ pc' = "c_for"
    /\ UNCHANGED <<sen, capFrame>>

\* One turn of for y in 0..80: let mut x = 0; while !self.read_hsync() {};
\* while self.read_hsync() { ... }; display.draw_row(y, &buf).  While draw_row
\* runs, nothing polls the sensor, which moves on by sen.late levels.
CapRow(rows, cols) ==
    /\ pc = "c_for"
    /\ cap.y < rows
    /\ \E t1 \in {Wait(sen, cap.t, "hsync", TRUE)} :
       \E row \in {WhileHsync(sen, cols, t1, 0, cap.buf)} :
           /\ ~Spins(sen, row.t)
           /\ DisplayEffect(draw_row(Driver(cs, rs, rst), width, cap.y, row.buf),
                            Call("draw_row", cap.y, row.buf, None))
           /\ cap' = [cap EXCEPT !.t = row.t + sen.late, !.x = row.x, !.buf = row.buf,
                                 !.y = @ + 1, !.rows = @ + 1,
                                 !.hist = Append(@, [y |-> cap.y, from |-> t1,
                                                     x |-> row.x,
                                                     drawn |-> row.t])]
    /\ pc' = "c_for"
    /\ UNCHANGED <<sen, capFrame>>

\* for y in 0..80 is over: draw_frame returns
CapReturn(rows) ==
    /\ pc = "c_for"
    /\ cap.y >= rows
    /\ pc' = "idle"
    /\ cap' = [cap EXCEPT !.returned = TRUE]
    /\ UNCHANGED <<halted, sen, dispVars, capFrame>>

Capture(rows, cols) ==
    \/ CapVsync(cols)
    \/ CapRow(rows, cols)
    \/ CapReturn(rows)

\* OV7670::new makes the sensor lines inputs; the sensor is at the start of
\* one of the frames.
InitCap(frames) ==
    /\ sen \in frames
    /\ cap = [t |-> 0, y |-> 0, x |-> 0, buf |-> <<>>, rows |-> 0,
              returned |-> FALSE, seen |-> <<>>, hist |-> <<>>]

\* A capture that is never called
CapParked ==
    InitCap({[pattern |-> 0, lines |-> 0, cols |-> 0, odd |-> 0, late |-> 0,
              stop |-> NoStop, drop |-> 0]})

\* A recovery that is never called, on a bus nobody holds
RecParked ==
    /\ gpiob = [moder8 |-> "alternate", moder9 |-> "alternate",
                afrh8 |-> 4, afrh9 |-> 4,
                ot8 |-> "open_drain", ot9 |-> "open_drain",
                pupdr8 |-> "pull_up", pupdr9 |-> "pull_up",
                odr8 |-> 0, odr9 |-> 0]
    /\ sdaHeld = FALSE
    /\ fl = [i |-> 0, pulses |-> 0, edges |-> 0, returned |-> FALSE,
            low |-> FALSE, ret |-> "none"]

\* A register bus that is never used
BusParked == InitI2C

InitD ==
    /\ pc = "idle"
    /\ halted = FALSE
    /\ InitDisplay(Geoms)
    /\ sample = 0
    /\ InitI2C
    /\ RecParked
    /\ CapParked

NextD ==
    \/ DisplayCalibrate
    \/ DisplayFill(ColorArgs)
    \/ DisplayDrawRow(RowArgs, Bufs)

SpecD == InitD /\ [][NextD]_vars

\* The firmware's panel
InitPanel ==
    /\ pc = "idle"
    /\ halted = FALSE
    /\ InitDisplay({Panel})
    /\ sample = 0
    /\ InitI2C
    /\ RecParked
    /\ CapParked

NextPanel ==
    \/ DisplayFillBegin(PanelColorArgs)
    \/ DisplayFillFinish
    \/ DisplayCalibrate
    \/ DisplayDrawRow(PanelRowArgs, PanelBufs)

SpecPanel == InitPanel /\ [][NextPanel]_vars

\* The conversion of every pixel code
InitP ==
    /\ pc = "idle"
    /\ halted = FALSE
    /\ InitDisplay({Panel})
    /\ sample \in U16
    /\ InitI2C
    /\ RecParked
    /\ CapParked

NextP == DisplayDrawSample

SpecP == InitP /\ [][NextP]_vars

-----------------------------------------------------------------------------
(* The register bus against the simulated peripheral *)

\* A display that is constructed and left alone
DisplayParked ==
    /\ width = Panel[1] /\ height = Panel[2]
    /\ cs = "Enable" /\ rs = "Command" /\ rst = "Enable"
    /\ log = <<>>
    /\ reads = {}
    /\ last = Call("new", 0, <<>>, None)
    /\ sample = 0

InitB ==
    /\ pc = "idle"
    /\ halted = FALSE
    /\ DisplayParked
    /\ InitI2C
    /\ RecParked
    /\ CapParked

SccbClient ==
    \/ \E a \in AddrArgs, v \in DataArgs : SccbWriteCall(a, v)
    \/ \E a \in AddrArgs : SccbReadCall(a)

NextB == SccbClient \/ SccbWrite \/ SccbRead \/ Hw

SpecB == InitB /\ [][NextB]_vars

\* The same, with the thread always taking its next step when it has one.
\* The peripheral is under no such obligation: it may leave a flag clear.
SpecBSilent == InitB /\ [][NextB]_vars /\ WF_vars(SccbWrite \/ SccbRead)

-----------------------------------------------------------------------------
(* The sensor set-up against the simulated peripheral *)

NextC ==
    \/ CamCalibrateCall
    \/ CamCalibrate
    \/ SccbWrite
    \/ HwStop \/ HwStart \/ HwShift

SpecC == InitB /\ [][NextC]_vars

-----------------------------------------------------------------------------
(* The bus recovery against any behaviour of SDA *)

InitR ==
    /\ pc = "idle"
    /\ halted = FALSE
    /\ DisplayParked
    /\ BusParked
    /\ InitRec
    /\ CapParked

NextR == FlushCall \/ Flush \/ SdaHold \/ SdaRelease

\* The firmware thread keeps executing: no step of flush_i2c_bus waits on
\* anything but asm::delay.
SpecR == InitR /\ [][NextR]_vars /\ WF_vars(Flush)

-----------------------------------------------------------------------------
(* One frame of the simulated sensor, captured towards a small display *)

Frames == [pattern : Patterns, lines : {FrameRows}, cols : {RowWidth},
           odd : {RowWidth}, late : {0}, stop : {NoStop}, drop : {0}]

InitF ==
    /\ pc = "idle"
    /\ halted = FALSE
    /\ InitDisplay({<<3, 2>>})
    /\ sample = 0
    /\ BusParked
    /\ RecParked
    /\ InitCap(Frames)

NextF ==
    \/ CaptureCall
    \/ Capture(FrameRows, RowWidth)

SpecF == InitF /\ [][NextF]_vars

\* Frames whose lines are longer or shorter than the row buffer, and a call
\* of draw_frame that finds vsync low (place 0) or already high (place 1)
LongWidth == RowWidth + 2
ShortWidth == RowWidth - 2
VarFrames == [pattern : {85}, lines : {FrameRows},
              cols : {RowWidth, LongWidth}, odd : {ShortWidth}, late : {0},
              stop : {NoStop}, drop : {0}]

InitV ==
    /\ pc = "idle"
    /\ halted = FALSE
    /\ InitDisplay({<<3, 2>>})
    /\ sample = 0
    /\ BusParked
    /\ RecParked
    /\ sen \in VarFrames
    /\ \E t \in {0, 1} :
          cap = [t |-> t, y |-> 0, x |-> 0, buf |-> <<>>, rows |-> 0,
                 returned |-> FALSE, seen |-> <<>>, hist |-> <<>>]

SpecV == InitV /\ [][NextF]_vars

\* A sensor that runs freely: while draw_row runs it moves on by no level,
\* by one (hsync has just risen for the next line) or by six (the next line
\* is at its second pixel).
Lates == {0, 1, 6}
FreeFrames == [pattern : {85}, lines : {FrameRows}, cols : {RowWidth},
               odd : {RowWidth}, late : Lates, stop : {NoStop}, drop : {0}]

InitW ==
    /\ pc = "idle"
    /\ halted = FALSE
    /\ InitDisplay({<<3, 2>>})
    /\ sample = 0
    /\ BusParked
    /\ RecParked
    /\ InitCap(FreeFrames)

SpecW == InitW /\ [][NextF]_vars

\* A sensor whose hsync falls at the end of the line's last byte, two levels
\* before it (between the two bytes of the last pixel) or five levels before
\* it (between the two bytes of the pixel before the last); it waits for the
\* capture, or moves on by four levels during draw_row, so that hsync and
\* pclk are both high, in the second byte of the first pixel, when the capture
\* polls again.
DropWidth == 3
Drops == {0, 2, 5}
DropLates == {0, 4}
DropFrames == [pattern : {85}, lines : {FrameRows}, cols : {DropWidth},
               odd : {DropWidth}, late : DropLates, stop : {NoStop},
               drop : Drops]

InitH ==
    /\ pc = "idle"
    /\ halted = FALSE
    /\ InitDisplay({<<3, 2>>})
    /\ sample = 0
    /\ BusParked
    /\ RecParked
    /\ InitCap(DropFrames)

SpecH == InitH /\ [][NextF]_vars

\* A sensor that stops: before the vsync pulse, in it, after it, and in line
\* 1 with hsync high and pclk low before the first byte, high in the first
\* byte, low after it, high in the second byte.  Its lines are two pixels
\* long: the waits are the same for every pixel of a line.
StallWidth == 1
WholeFrame == [pattern |-> 85, lines |-> FrameRows, cols |-> StallWidth,
               odd |-> StallWidth, late |-> 0, stop |-> NoStop,
               drop |-> 0]
Stops == {NoStop} \cup (0..2) \cup {3 + SimLineLen(WholeFrame) + k : k \in 0..3}
StopFrames == {[WholeFrame EXCEPT !.stop = st] : st \in Stops}

InitS ==
    /\ pc = "idle"
    /\ halted = FALSE
    /\ InitDisplay({<<3, 2>>})
    /\ sample = 0
    /\ BusParked
    /\ RecParked
    /\ InitCap(StopFrames)

\* The firmware thread keeps executing: a polling loop of draw_frame that
\* finds its level goes on.
SpecS == InitS /\ [][NextF]_vars /\ WF_vars(Capture(FrameRows, RowWidth))

-----------------------------------------------------------------------------
(* Reading the display log *)

IsSpi(e) == e.op = "spi_write"
IsStep(e) == e.op \notin {"register_select", "call"}

Vals(seq) == [i \in 1..Len(seq) |-> seq[i].val]

\* Where command byte b was sent (register-select in Command mode)
CmdIdx(b) ==
    {i \in DOMAIN log : IsSpi(log[i]) /\ log[i].rs = "Command" /\ log[i].val = b}

\* The bytes sent strictly between log positions i and j
SpiBetween(i, j) == SelectSeq(SubSeq(log, i + 1, j - 1), IsSpi)

\* The bytes sent after the memory-write command: the pixel stream
PixelStream ==
    IF CmdIdx(RAMWR) = {} THEN <<>>
    ELSE LET m == CHOOSE i \in CmdIdx(RAMWR) : TRUE
         IN  SpiBetween(m, Len(log) + 1)

CsCalls(state) ==
    Cardinality({i \in DOMAIN log : log[i].op = "chip_select" /\ log[i].arg = state})

FillCalls == {i \in DOMAIN log : log[i].op = "call" /\ log[i].arg = "fill"}

DisplayOps == {"calibrate", "fill", "draw_row"}

-----------------------------------------------------------------------------
(* C4 *)

\* C4: for every width and buffer, draw_row streams exactly
\* min(width, buf.len()) pixels of 3 bytes after the memory-write command (a
\* buffer longer than the width is cut to width pixels), and every index it
\* reads from the buffer is below buf.len(), so it never panics.
C4_DrawRowTruncates ==
    last.op = "draw_row" =>
        /\ ~halted
        /\ Len(PixelStream) = 3 * Min(width, Len(last.buf))
        /\ Len(last.buf) > width => Len(PixelStream) = 3 * width
        /\ \A i \in reads : i < Len(last.buf)

C4_Witness ==
    /\ last.op = "draw_row"
    /\ Len(last.buf) > width
    /\ Len(PixelStream) = 3 * width
    /\ reads = 0..(width - 1)

-----------------------------------------------------------------------------
(* C5 *)

\* C5: for every 16-bit pixel code p, the three bytes draw_row sends for it
\* are R = ((p >> 11) & 0x1F) << 3, G = ((p >> 5) & 0x3F) << 2 and
\* B = (p & 0x1F) << 3 in that order, each within 8 bits, the low 3 bits of R
\* and B and the low 2 bits of G zero; 0xF800 gives (248,0,0), 0x07E0 gives
\* (0,252,0), 0x001F gives (0,0,248).
C5_Rgb565To888 ==
    (last.op = "draw_row" /\ last.buf = <<sample>>) =>
        LET p  == sample
            px == Vals(PixelStream)
        IN  /\ px = <<((p \div 2048) % 32) * 8, ((p \div 32) % 64) * 4, (p % 32) * 8>>
            /\ \A k \in 1..3 : px[k] \in 0..255
            /\ px[1] % 8 = 0 /\ px[2] % 4 = 0 /\ px[3] % 8 = 0
            /\ p = 63488 => px = <<248, 0, 0>>
            /\ p = 2016 => px = <<0, 252, 0>>
            /\ p = 31 => px = <<0, 0, 248>>

C5_Witness ==
    /\ last.op = "draw_row"
    /\ sample = 2016
    /\ Vals(PixelStream) = <<0, 252, 0>>

-----------------------------------------------------------------------------
(* C6 *)

\* C6: a fill of the 128 x 160 display sends exactly 8 window parameter
\* bytes, all in Data mode: 00 00 00 7F between column-address-set and
\* row-address-set, and 00 00 00 9F between row-address-set and memory-write.
C6_FullScreenWindow ==
    (last.op \in {"fill", "calibrate"} /\ width = 128 /\ height = 160) =>
        /\ Cardinality(CmdIdx(CASET)) = 1
        /\ Cardinality(CmdIdx(RASET)) = 1
        /\ Cardinality(CmdIdx(RAMWR)) = 1
        /\ LET c == CHOOSE i \in CmdIdx(CASET) : TRUE
               r == CHOOSE i \in CmdIdx(RASET) : TRUE
               m == CHOOSE i \in CmdIdx(RAMWR) : TRUE
           IN  /\ c < r /\ r < m
               /\ Vals(SpiBetween(c, r)) = <<0, 0, 0, 127>>
               /\ Vals(SpiBetween(r, m)) = <<0, 0, 0, 159>>
               /\ \A i \in (c + 1)..(m - 1) :
                      (IsSpi(log[i]) /\ i # r) => log[i].rs = "Data"

C6_Witness ==
    /\ last.op = "fill"
    /\ width = 128 /\ height = 160
    /\ Cardinality(CmdIdx(CASET)) = 1
    /\ Len(SpiBetween(CHOOSE i \in CmdIdx(CASET) : TRUE,
                      CHOOSE i \in CmdIdx(RAMWR) : TRUE)) = 9

-----------------------------------------------------------------------------
(* C7 *)

\* C7 as claimed: after each top-level display operation (calibrate, fill,
\* draw_row, also with an empty buffer) the chip-select assert calls equal the
\* deassert calls in number and chip-select is deasserted.
C7_BalancedAndDeasserted ==
    last.op \in DisplayOps =>
        /\ CsCalls("Enable") = CsCalls("Disable")
        /\ cs = "Disable"

\* C7 as amended: the calls are balanced for every operation; chip-select is
\* deasserted on return of calibrate, of fill and of a draw_row that streams
\* at least one pixel; a draw_row of length min(width, buf.len()) = 0 makes
\* no chip-select call and leaves chip-select as it found it.
C7_BalancedAndDeassertedUnlessEmpty ==
    last.op \in DisplayOps =>
        /\ CsCalls("Enable") = CsCalls("Disable")
        /\ IF last.op = "draw_row" /\ Min(width, Len(last.buf)) = 0
           THEN CsCalls("Enable") = 0 /\ cs = last.csIn
           ELSE CsCalls("Enable") >= 1 /\ cs = "Disable"

C7_Witness ==
    /\ last.op = "calibrate"
    /\ CsCalls("Enable") = 2
    /\ CsCalls("Disable") = 2
    /\ cs = "Disable"

-----------------------------------------------------------------------------
(* C8 *)

Step(e) == <<e.op, e.arg, e.val>>

CalibrateSteps ==
    << <<"chip_select", "Disable", 0>>,
       <<"reset", "Enable", 0>>, <<"delay", "", SettleCycles>>,
       <<"reset", "Disable", 0>>, <<"delay", "", SettleCycles>>,
       <<"chip_select", "Enable", 0>>,
       <<"spi_write", "", 1>>, <<"delay", "", SettleCycles>>,
       <<"spi_write", "", 17>>, <<"delay", "", SettleCycles>>,
       <<"spi_write", "", 41>>, <<"delay", "", SettleCycles>> >>

\* C8: calibrate does, in this order: chip-select deassert; reset asserted,
\* delay, reset released, delay; chip-select assert; software reset (0x01),
\* delay; sleep-out (0x11), delay; display-on (0x29), delay; and then one
\* full-screen fill, which is the rest of what it does; there is no other
\* fill in the sequence.
C8_CalibrateSequence ==
    last.op = "calibrate" =>
        /\ Cardinality(FillCalls) = 1
        /\ LET f    == CHOOSE i \in FillCalls : TRUE
               head == SelectSeq(SubSeq(log, 1, f - 1), IsStep)
               at   == [Driver(log[f - 1].cs, log[f - 1].rs, rst) EXCEPT !.rst = "Disable"]
           IN  /\ [k \in 1..Len(head) |-> Step(head[k])] = CalibrateSteps
               /\ \A k \in 1..Len(head) : IsSpi(head[k]) => head[k].rs = "Command"
               /\ SubSeq(log, f, Len(log)) = fill(at, width, height, None).log
               /\ Len(PixelStream) = 3 * width * height

C8_Witness ==
    /\ last.op = "calibrate"
    /\ Cardinality(FillCalls) = 1
    /\ log[Len(log)] = [op |-> "chip_select", arg |-> "Disable", val |-> 0,
                        cs |-> "Disable", rs |-> "Command"]

-----------------------------------------------------------------------------
(* Reading the register-bus log *)

IsPrefix(s, t) == Len(s) <= Len(t) /\ s = SubSeq(t, 1, Len(s))

\* START; wait SB; send 0x42; wait ADDR; read SR2; send addr; wait BTF
AddressPhase(addr) ==
    << BusEv("cr1", "START", 0), BusEv("wait", "SB", 1),
       BusEv("dr_write", "", 66), BusEv("wait", "ADDR", 1),
       BusEv("sr2_read", "", 0),
       BusEv("dr_write", "", addr), BusEv("wait", "BTF", 1) >>

WriteSeq(addr, data) ==
    AddressPhase(addr) \o
    << BusEv("dr_write", "", data), BusEv("wait", "BTF", 1),
       BusEv("cr1", "STOP", 0) >>

\* All of a read but the final read of DR
ReadSeq(addr) ==
    AddressPhase(addr) \o
    << BusEv("cr1", "STOP", 0), BusEv("cr1", "START", 0),
       BusEv("wait", "SB", 1), BusEv("dr_write", "", 67),
       BusEv("wait", "ADDR", 1), BusEv("sr2_read", "", 0),
       BusEv("cr1", "NACK+STOP", 0), BusEv("wait", "RxNE", 1) >>

-----------------------------------------------------------------------------
(* C2 *)

\* C2: against the simulated peripheral, a completed sccb_read(a) returns the
\* value of the last completed sccb_write(a, v) to the same register.
C2_WriteThenRead ==
    (pc = "idle" /\ sccb.op = "read" /\ shadow[sccb.addr] # NoByte) =>
        sccb.ret = shadow[sccb.addr]

C2_Witness ==
    /\ pc = "idle"
    /\ sccb.op = "read"
    /\ shadow[sccb.addr] = 128
    /\ sccb.ret = 128
    /\ \E a \in AddrArgs : a # sccb.addr /\ shadow[a] = 255

-----------------------------------------------------------------------------
(* C9 *)

\* C9: every sccb_write(addr, data) performs, once and in this order: START;
\* wait SB; send 0x42; wait ADDR; read SR2; send addr; wait BTF; send data;
\* wait BTF; STOP.  At every moment what it has done is a prefix of that
\* sequence, each wait was left with its flag found set, and on return the
\* whole sequence has been done, with one START and one STOP.
C9_WriteTransaction ==
    sccb.op = "write" =>
        /\ IsPrefix(busLog, WriteSeq(sccb.addr, sccb.data))
        /\ pc = "idle" <=> busLog = WriteSeq(sccb.addr, sccb.data)

C9_Witness ==
    /\ sccb.op = "write"
    /\ pc = "idle"
    /\ busLog = WriteSeq(18, 128)

-----------------------------------------------------------------------------
(* C10 *)

\* C10: every sccb_read(addr) performs the address phase (START, wait SB,
\* send 0x42, wait ADDR, read SR2, send addr, wait BTF), then STOP, START,
\* wait SB, send 0x43, wait ADDR, read SR2, NACK together with STOP, wait
\* RxNE, and only then reads the data register, whose byte it returns.
C10_ReadTransaction ==
    sccb.op = "read" =>
        IF pc = "idle"
        THEN /\ Len(busLog) = Len(ReadSeq(sccb.addr)) + 1
             /\ SubSeq(busLog, 1, Len(busLog) - 1) = ReadSeq(sccb.addr)
             /\ busLog[Len(busLog)] = BusEv("dr_read", "", sccb.ret)
             /\ sccb.ret \in Byte
             /\ sccb.ret = i2c.dr
        ELSE /\ IsPrefix(busLog, ReadSeq(sccb.addr))
             /\ sccb.ret = NoByte

C10_Witness ==
    /\ sccb.op = "read"
    /\ pc = "idle"
    /\ Len(busLog) = 16
    /\ sccb.ret = 255

-----------------------------------------------------------------------------
(* C3 *)

\* C3: whatever SDA does, also when it stays low for ever, a flush_i2c_bus
\* that has been called returns, and it drives at most 9 clock pulses (SCL
\* low, then SCL high) before the manual stop and the return.  Its only
\* other rising edge of SCL is the one that sets the line idle when the
\* outputs are enabled over a low SCL latch.
C3_FlushTerminates ==
    /\ [](fl.pulses <= 9 /\ fl.edges <= fl.pulses + 1)
    /\ (pc # "idle") ~> (pc = "idle" /\ fl.returned)

C3_Witness ==
    /\ pc = "idle"
    /\ fl.returned
    /\ fl.pulses = 9
    /\ sdaHeld

-----------------------------------------------------------------------------
(* C1 *)

\* The pixel codes of line `line` of the simulated sensor, in the order
\* clocked, each (first byte << 8) | second byte
SimLine(p, line) ==
    [i \in 1..160 |-> 256 * SimByte(p, line, i - 1, 0) + SimByte(p, line, i - 1, 1)]

\* C1: against the simulated sensor (one vsync pulse, then 80 lines of 160
\* two-byte pixels), draw_frame calls draw_row exactly 80 times, and the
\* buffer of the k-th call holds exactly the 160 pixel codes of the k-th
\* line, in the order clocked, each (first byte << 8) | second byte.
C1_FrameOfRows ==
    /\ cap.rows <= 80
    /\ cap.returned => cap.rows = 80
    /\ cap.rows >= 1 =>
           /\ last.op = "draw_row"
           /\ last.row = cap.rows - 1
           /\ last.buf = SimLine(sen.pattern, cap.rows - 1)

C1_Witness ==
    /\ pc = "idle"
    /\ cap.returned
    /\ cap.rows = 80
    /\ last.row = 79
    /\ last.buf[160] = 256 * SimByte(sen.pattern, 79, 159, 0)
                       + SimByte(sen.pattern, 79, 159, 1)

-----------------------------------------------------------------------------
(* C11 *)

\* The polling loops of sccb_write and sccb_read
BusWaits ==
    {"w_wait_sb", "w_wait_addr", "w_wait_btf1", "w_wait_btf2",
     "r_wait_sb", "r_wait_addr", "r_wait_btf", "r_wait_sb2", "r_wait_addr2",
     "r_wait_rxne"}

\* C11 as claimed: every status wait of the register bus write and read is
\* bounded: also when the awaited flag is never set, the operation leaves the
\* wait and returns to its caller.
C11_WaitsEnd == (pc \in BusWaits) ~> (pc = "idle")

-----------------------------------------------------------------------------
(* C12 *)

CalWrites == SelectSeq(cal.log, LAMBDA e : e.op = "write")
CalDelays == SelectSeq(cal.log, LAMBDA e : e.op = "delay")

\* C12: in the sensor's calibrate the first thing done is the write of 0x80
\* to register 0x12 and the second the settle delay.  The delay starts only
\* when that write has returned and the peripheral holds the value, and no
\* other register write starts before the delay has been made.
C12_ResetAndSettleFirst ==
    /\ Len(cal.log) >= 1 =>
           cal.log[1] = [op |-> "write", addr |-> 18, data |-> 128, cycles |-> 0]
    /\ Len(cal.log) >= 2 =>
           /\ cal.log[2].op = "delay"
           /\ cal.log[2].cycles = 1920000
    /\ Len(cal.log) = 2 => pc = "idle" /\ bus.regs[18] = 128
    /\ (pc # "idle" /\ sccb.addr # 18) => Len(cal.log) >= 3
    /\ Len(CalWrites) >= 2 => Len(CalDelays) >= 1

C12_Witness ==
    /\ cal.returned
    /\ Len(cal.log) = 14
    /\ bus.regs[0] = 160

-----------------------------------------------------------------------------
(* C13 *)

\* The (address, value) pairs of calibrate's register writes
CalPairs == [i \in 1..Len(CalWrites) |-> <<CalWrites[i].addr, CalWrites[i].data>>]

CalList ==
    << <<18, 128>>, <<18, 20>>, <<17, 1>>, <<12, 4>>, <<62, 25>>, <<112, 58>>,
       <<113, 53>>, <<114, 17>>, <<115, 1>>, <<162, 2>>, <<64, 208>>,
       <<19, 3>>, <<0, 160>> >>

\* C13 as claimed: calibrate issues a fixed ordered list of register writes
\* and performs exactly two settle delays during it.
C13_WritesAndTwoDelays ==
    cal.returned => CalPairs = CalList /\ Len(CalDelays) = 2

\* C13 as amended: calibrate issues the fixed ordered list of 13 register
\* writes and performs exactly one settle delay during it, right after the
\* first write.
C13_WritesAndOneDelay ==
    /\ IsPrefix(CalPairs, CalList)
    /\ Len(CalDelays) <= 1
    /\ cal.returned =>
           /\ CalPairs = CalList
           /\ Len(CalDelays) = 1
           /\ cal.log[2].op = "delay"

C13_Witness ==
    /\ cal.returned
    /\ pc = "idle"
    /\ Len(CalWrites) = 13
    /\ Len(CalDelays) = 1

-----------------------------------------------------------------------------
(* C14: draw_frame begins the rows only after it has seen, since the call,  *)
(* vsync low, then high, then low again: a full pulse, whatever the level   *)
(* of vsync at the call.                                                     *)

C14_FullPulseSeen ==
    pc = "c_for" =>
        /\ Len(cap.seen) >= 3
        /\ SubSeq(cap.seen, Len(cap.seen) - 2, Len(cap.seen)) = <<FALSE, TRUE, FALSE>>

-----------------------------------------------------------------------------
(* C15: draw_frame calls draw_row once in each turn of the row loop, with   *)
(* y = 0, 1, ..., 79 in this order; the call for row y is made when hsync   *)
(* has been seen low after the pixels of line y, and before the capture      *)
(* looks at line y + 1.                                                      *)

\* The place where hsync rises for line y
LineStart(f, y) == 3 + y * SimLineLen(f)
\* The place of the last pclk falling edge of line y, where hsync falls
LineEnd(f, y) == LineStart(f, y) + 4 * LineCols(f, y)

\* The draw_row calls in the log of the last operation
RowCalls == {i \in DOMAIN log : log[i].op = "call" /\ log[i].arg = "draw_row"}

C15_OneDrawPerRowInOrder ==
    /\ Len(cap.hist) = cap.rows
    /\ cap.rows <= FrameRows
    /\ cap.returned => cap.rows = FrameRows
    /\ \A k \in DOMAIN cap.hist :
          LET h == cap.hist[k]
          IN  /\ h.y = k - 1
              /\ h.from = LineStart(sen, h.y)
              /\ h.drawn >= LineEnd(sen, h.y)
              /\ ~read(sen, h.drawn, "hsync")
              /\ k < Len(cap.hist) => h.drawn < cap.hist[k + 1].from
    /\ cap.rows >= 1 =>
          /\ last.op = "draw_row"
          /\ last.row = cap.hist[cap.rows].y
          /\ Cardinality(RowCalls) = 1

C15_Witness ==
    /\ cap.returned
    /\ Len(cap.hist) = FrameRows
    /\ cap.hist[FrameRows].y = FrameRows - 1
    /\ sen.cols = LongWidth

-----------------------------------------------------------------------------
(* C16: whatever the number of pixels of a line, draw_frame writes the row  *)
(* buffer at indices 0..159 only: the first 160 codes of the line are kept  *)
(* in order, every further pixel is sampled (x counts it) and stored        *)
(* nowhere, the buffer stays 160 long and the program does not panic.        *)

\* The code of pixel pix of line `line`, as clocked out by the sensor
SimCode(f, line, pix) ==
    Concat(SimByte(f.pattern, line, pix, 0), SimByte(f.pattern, line, pix, 1))

C16_BufferBounded ==
    /\ ~halted
    /\ pc = "c_for" => Len(cap.buf) = RowWidth
    /\ cap.rows >= 1 =>
          LET y == cap.hist[cap.rows].y
          IN  /\ cap.x = LineCols(sen, y)
              /\ Len(last.buf) = RowWidth
              /\ \A i \in 1..Min(RowWidth, LineCols(sen, y)) :
                    last.buf[i] = SimCode(sen, y, i - 1)

C16_Witness ==
    /\ cap.rows >= 1
    /\ cap.x = LongWidth
    /\ cap.x > RowWidth
    /\ Len(last.buf) = RowWidth
    /\ last.buf[RowWidth] = SimCode(sen, cap.hist[cap.rows].y, RowWidth - 1)

-----------------------------------------------------------------------------
(* C17: the buffer handed to draw_row for row y holds only pixel codes      *)
(* sampled during row y, also when line y has fewer than 160 pixels: no     *)
(* code of an earlier row is left in it.                                     *)

\* The codes sampled during row y
RowCodes(f, y) == {SimCode(f, y, pix) : pix \in 0..(LineCols(f, y) - 1)}

C17_OnlyThisRow ==
    cap.rows >= 1 =>
        \A i \in DOMAIN last.buf : last.buf[i] \in RowCodes(sen, cap.hist[cap.rows].y)

-----------------------------------------------------------------------------
(* C18: for every display geometry and every fill or draw_row, the column   *)
(* addresses sent after column-address-set lie in 0..width-1 and the row    *)
(* addresses sent after row-address-set lie in 0..height-1.                  *)

\* The 16-bit value of bytes k and k + 1 of v, most significant first
Word(v, k) == 256 * v[k] + v[k + 1]

\* The parameter bytes of the column window and of the row window of the
\* last operation
ColWindow ==
    LET c == CHOOSE i \in CmdIdx(CASET) : TRUE
        r == CHOOSE i \in CmdIdx(RASET) : TRUE
    IN  Vals(SpiBetween(c, r))
RowWindow ==
    LET r == CHOOSE i \in CmdIdx(RASET) : TRUE
        m == CHOOSE i \in CmdIdx(RAMWR) : TRUE
    IN  Vals(SpiBetween(r, m))

HasWindow ==
    /\ last.op \in {"fill", "draw_row"}
    /\ CmdIdx(CASET) # {} /\ CmdIdx(RASET) # {} /\ CmdIdx(RAMWR) # {}

C18_WindowInside ==
    HasWindow =>
        /\ Len(ColWindow) = 4 /\ Len(RowWindow) = 4
        /\ Word(ColWindow, 1) \in 0..(width - 1)
        /\ Word(ColWindow, 3) \in 0..(width - 1)
        /\ Word(RowWindow, 1) \in 0..(height - 1)
        /\ Word(RowWindow, 3) \in 0..(height - 1)

-----------------------------------------------------------------------------
(* C19: a fill, and a draw_row of at least one pixel, make exactly these    *)
(* calls in this order: chip-select asserted; command mode, NOP; command    *)
(* mode, column-address-set; data mode, 4 bytes; command mode,              *)
(* row-address-set; data mode, 4 bytes; command mode, memory-write; data    *)
(* mode, 3 bytes for each pixel; command mode; chip-select deasserted.      *)
(* Every byte goes out in the mode selected last.                            *)

\* What a log entry is: the call, its argument, the byte when it is a
\* command byte, and the mode a byte is sent in
Shape(e) ==
    <<e.op, e.arg,
      IF IsSpi(e) /\ e.rs = "Command" THEN e.val ELSE 0,
      IF IsSpi(e) THEN e.rs ELSE "">>

Sel(state) == <<"chip_select", state, 0, "">>
Mode(m) == <<"register_select", m, 0, "">>
Cmd(b) == <<"spi_write", "", b, "Command">>
Dat == <<"spi_write", "", 0, "Data">>

DrawShape(pixels) ==
    << Sel("Enable"),
       Mode("Command"), Cmd(NOP),
       Mode("Command"), Cmd(CASET), Mode("Data"), Dat, Dat, Dat, Dat,
       Mode("Command"), Cmd(RASET), Mode("Data"), Dat, Dat, Dat, Dat,
       Mode("Command"), Cmd(RAMWR), Mode("Data") >>
    \o [j \in 1..(3 * pixels) |-> Dat]
    \o << Mode("Command"), Sel("Disable") >>

\* The calls of the last operation, without the entry that marks its start
Made ==
    LET evs == SelectSeq(log, LAMBDA e : e.op # "call")
    IN  [k \in 1..Len(evs) |-> Shape(evs[k])]

C19_DrawSequence ==
    /\ last.op = "fill" => Made = DrawShape(width * height)
    /\ (last.op = "draw_row" /\ Min(width, Len(last.buf)) > 0) =>
           Made = DrawShape(Min(width, Len(last.buf)))

C19_Witness ==
    /\ last.op = "draw_row"
    /\ width = 3
    /\ Len(last.buf) = 2
    /\ Len(Made) = 28
    /\ Made[21] = Dat
    /\ Made[28] = Sel("Disable")

-----------------------------------------------------------------------------
(* C20: draw_row(row, buf) sends a column window with start = end = row and *)
(* a row window 0 .. n - 1, n being the number of pixels it streams: pixel  *)
(* i of buf goes to column `row`, row i of the display.                      *)

C20_RowToColumn ==
    (last.op = "draw_row" /\ HasWindow) =>
        LET n == Len(PixelStream) \div 3
        IN  /\ Len(PixelStream) = 3 * n
            /\ Len(ColWindow) = 4 /\ Len(RowWindow) = 4
            /\ Word(ColWindow, 1) = last.row
            /\ Word(ColWindow, 3) = last.row
            /\ Word(RowWindow, 1) = 0
            /\ Word(RowWindow, 3) = n - 1

-----------------------------------------------------------------------------
(* C21: when flush_i2c_bus has returned, whatever SDA did, PB8 and PB9 are  *)
(* in alternate-function mode with function 4, as OV7670::new set them, and *)
(* at no step of the recovery are the open-drain and pull-up settings other *)
(* than new left them.                                                       *)

C21_RolesRestored ==
    /\ gpiob.ot8 = "open_drain" /\ gpiob.ot9 = "open_drain"
    /\ gpiob.pupdr8 = "pull_up" /\ gpiob.pupdr9 = "pull_up"
    /\ pc = "idle" =>
          /\ gpiob.moder8 = "alternate" /\ gpiob.moder9 = "alternate"
          /\ gpiob.afrh8 = 4 /\ gpiob.afrh9 = 4

C21_Witness ==
    /\ pc = "idle"
    /\ fl.returned
    /\ fl.pulses = 3
    /\ ~sdaHeld
    /\ gpiob.moder9 = "alternate"

-----------------------------------------------------------------------------
(* C22: a recovery that has driven its 9 clock pulses and left the loop     *)
(* with the data line still low returns the error BusRecoveryFailed to its  *)
(* caller.                                                                   *)

C22_FailureReported ==
    (pc = "idle" /\ fl.returned /\ fl.pulses = 9 /\ fl.low) =>
        fl.ret = "BusRecoveryFailed"

-----------------------------------------------------------------------------
(* C23: with a sensor that runs freely, every row draw_frame captures       *)
(* starts where hsync rises: the first pixel stored for the row is the      *)
(* first pixel of a sensor line, also when hsync is already high for the    *)
(* next line at the return of draw_row.                                      *)

\* The line the sensor is in at place t, and how far into it
LineAt(f, t) == (t - 3) \div SimLineLen(f)
OffsetAt(f, t) == (t - 3) % SimLineLen(f)

C23_RowFromLineStart ==
    /\ \A k \in DOMAIN cap.hist : OffsetAt(sen, cap.hist[k].from) = 0
    /\ cap.rows >= 1 =>
          last.buf[1] = SimCode(sen, LineAt(sen, cap.hist[cap.rows].from), 0)

-----------------------------------------------------------------------------
(* C24: the 4 bytes sent after column-address-set and after row-address-set *)
(* are the big-endian 16-bit encodings of the window's start and end: high  *)
(* byte value >> 8, low byte value & 0xFF, also for values above 255.       *)

\* Two big-endian 16-bit values
BigEndian(a, b) == <<Shr(a, 8), LowBits(a, 8), Shr(b, 8), LowBits(b, 8)>>

C24_WindowBigEndian ==
    /\ (last.op = "fill" /\ HasWindow) =>
           /\ ColWindow = BigEndian(0, width - 1)
           /\ RowWindow = BigEndian(0, height - 1)
    /\ (last.op = "draw_row" /\ HasWindow) =>
           /\ ColWindow = BigEndian(last.row, last.row)
           /\ RowWindow = BigEndian(0, Min(width, Len(last.buf)) - 1)

-----------------------------------------------------------------------------
(* C25: draw_frame has no timeout.  When the sensor stops before a level    *)
(* draw_frame waits for, draw_frame never returns and calls draw_row for no *)
(* line but those the sensor completed; when the sensor delivers the whole  *)
(* frame, draw_frame returns after its 80th draw_row.                        *)

\* The lines the sensor has completed when it stops
CompleteLines(f) ==
    Cardinality({y \in 0..(f.lines - 1) : LineEnd(f, y) <= StopAt(f)})

C25_NoTimeout ==
    /\ [](sen.stop # NoStop =>
            (~cap.returned /\ cap.rows <= CompleteLines(sen)))
    /\ (pc = "c_vsync" /\ sen.stop # NoStop) ~> [](pc # "idle")
    /\ (pc = "c_vsync" /\ sen.stop = NoStop /\ cap.t = 0) ~>
           (pc = "idle" /\ cap.returned /\ cap.rows = FrameRows)

C25_Witness ==
    /\ sen.stop = LineStart(sen, 1) + 1
    /\ pc = "c_for"
    /\ cap.rows = 1
    /\ cap.rows = CompleteLines(sen)
    /\ Spins(sen, WhileHsync(sen, RowWidth, Wait(sen, cap.t, "hsync", TRUE), 0, cap.buf).t)


-----------------------------------------------------------------------------
(* C26: in draw_frame hsync is sampled only at pixel boundaries: once it has *)
(* been read high, exactly two pclk rising edges are consumed and one pixel  *)
(* is stored (or dropped from index 160 on) before hsync is read again,      *)
(* whatever hsync does in between; every stored code is built from two       *)
(* consecutive data samples, never from one byte.                            *)

\* The rising edges in a sequence of polled levels
Rises(levels) ==
    Cardinality({i \in 1..(Len(levels) - 1) : ~levels[i] /\ levels[i + 1]})

\* The place is between two pixels of its line: before the first byte of one
AtPixelBoundary(f, t) == OffsetAt(f, t) % 4 = 0

C26_PixelBoundaries ==
    /\ \A k \in DOMAIN cap.hist :
          LET h == cap.hist[k]
          IN  /\ AtPixelBoundary(sen, h.from)
              /\ AtPixelBoundary(sen, h.drawn)
              /\ Rises(Polled(sen, "pclk", h.from, h.drawn)) = 2 * h.x
              /\ \A i \in 0..(h.x - 1) : read(sen, h.from + 4 * i, "hsync")
              /\ ~read(sen, h.drawn, "hsync")
    /\ cap.rows >= 1 =>
          LET h == cap.hist[cap.rows]
          IN  \A i \in 0..(Min(h.x, RowWidth) - 1) :
                 last.buf[i + 1] = Concat(read(sen, h.from + 4 * i + 1, "data"),
                                          read(sen, h.from + 4 * i + 3, "data"))

-----------------------------------------------------------------------------
(* C27: in calibrate, fill and draw_row of the display driver a byte is      *)
(* written to the serial bus only while chip-select is asserted; every       *)
(* command byte (NOP, SWRESET, SLPOUT, DISPON, CASET, RASET, RAMWR) is sent  *)
(* with register-select in Command mode, every window parameter byte and     *)
(* every pixel byte with register-select in Data mode.                       *)

\* The bytes the last operation has written, in order, each with the levels
\* of chip-select and register-select it was written at
Written == SelectSeq(log, IsSpi)

\* calibrate writes its three commands, then those of fill
Lead == IF last.op = "calibrate" THEN 3 ELSE 0

\* The command written as the n-th byte of the operation: calibrate's
\* SWRESET, SLPOUT, DISPON; then in fill and draw_row NOP, the column window
\* with its four parameters, the row window with its four, memory write.
\* None where the n-th byte is a window parameter or a pixel byte.
CommandAt(n) ==
    CASE n <= Lead /\ n = 1 -> Some(SWRESET)
      [] n <= Lead /\ n = 2 -> Some(SLPOUT)
      [] n <= Lead /\ n = 3 -> Some(DISPON)
      [] n - Lead = 1 -> Some(NOP)
      [] n - Lead = 2 -> Some(CASET)
      [] n - Lead = 7 -> Some(RASET)
      [] n - Lead = 12 -> Some(RAMWR)
      [] OTHER -> None

C27_SelectedAndInMode ==
    last.op \in DisplayOps =>
        \A n \in DOMAIN Written :
            /\ Written[n].cs = "Enable"
            /\ IF CommandAt(n) # None
               THEN /\ Written[n].rs = "Command"
                    /\ Written[n].val = CommandAt(n)[1]
               ELSE Written[n].rs = "Data"

\* calibrate has returned from a panel with pixels: its three commands, the
\* four of fill, the eight window parameters and the pixel bytes are written
C27_Witness ==
    /\ last.op = "calibrate"
    /\ width * height > 0
    /\ Len(Written) = 15 + 3 * width * height
    /\ Written[3].val = DISPON
    /\ Written[16].rs = "Data"

=============================================================================
